---- MODULE Spec2Model ----
(***************************************************************************)
(* A model of git-automessage: the generation client (src/llm.rs), the     *)
(* commit flow (src/cli.rs, src/git.rs), the changelog document merge      *)
(* (src/changelog.rs), the version label and short SHAs of a changelog     *)
(* entry, commit ranges and annotated tags (src/git.rs) and the            *)
(* construction of the generation client (src/llm.rs, src/config.rs).      *)
(*                                                                         *)
(* Texts are sequences of one-character strings, so that trimming, line    *)
(* splitting, joining and substring search are computed as the code        *)
(* computes them.                                                          *)
(***************************************************************************)
EXTENDS Integers, Sequences, FiniteSets, TLC

VARIABLES
    \* ---- the generation call (llm.rs) ----
    gpc,            \* "idle" | "awaiting" | "returned": position of the generate_* call
    call,           \* which generate_* function is running ("none" before the call)
    attempts,       \* number of chat requests issued so far by the call
    inflight,       \* number of chat requests sent and not yet answered
    response,       \* what the awaited chat request evaluated to (kind "none" before)
    genResult,      \* the Result<String> the call returned
    deadlinePassed, \* TRUE once 30 s have passed since the pending request was sent
    \* ---- the commit flow (cli.rs, git.rs) ----
    cpc,            \* "start" | "awaiting" | "done": position of handle_commit
    args_commit,    \* CommitArgs.commit
    index,          \* the repository index: path -> content (0: no entry)
    workdir,        \* the working tree: path -> content (0: no file)
    commits,        \* the commit objects, in creation order
    head,           \* position in commits of the commit HEAD points to (0: unborn)
    generator,      \* the MessageGenerator handle_commit constructed, if any
    staged_files,   \* what get_staged_files returned, if it was called
    request,        \* the file list and diff sent in the commit-message request
    cmdResult,      \* the Result handle_commit returned
    printed,        \* the lines handle_commit printed
    \* ---- the changelog file (changelog.rs) ----
    changelog_file, \* contents of the file at output_path
    prev_file,      \* contents before the last write_changelog
    last_content,   \* the content argument of the last write_changelog
    last_append,    \* the append argument of the last write_changelog
    fresh,          \* TRUE once the file was written by create_new_changelog
    merged,         \* the contents written since then, oldest first
    nWrites,        \* number of write_changelog calls so far
    lpc,            \* "start" | "awaiting" | "done": position of handle_changelog
    args_changelog, \* ChangelogArgs: range given, output given, append
    changelogResult, \* the Result handle_changelog returned
    \* ---- a changelog entry's commits (changelog.rs, llm.rs) ----
    commit_infos,   \* the &[CommitInfo] argument: records [sha, message]
    detected_version, \* what detect_version_from_commits returned, if called
    rendered,       \* the short SHAs rendered for commit_infos, or a panic
    \* ---- commit ranges (git.rs) ----
    parents,        \* the commit graph: commit -> set of its parent commits
    refs,           \* reference name -> commit
    range_arg,      \* the range argument of the last get_commits_in_range
    resolved,       \* the specs handed to revparse_single, in call order
    rangeResult,    \* the Result get_commits_in_range returned
    \* ---- annotated tags (cli.rs, git.rs) ----
    tpc,            \* "start" | "awaiting" | "done": position of handle_tag
    args_tag,       \* TagArgs: name, annotated, reference
    tags,           \* tag name -> [target, message]
    tagResult,      \* the Result handle_tag returned
    \* ---- constructing the generation client (llm.rs, config.rs) ----
    loaded_config,  \* the Config that Config::load returned, if it was called
    env_api_key,    \* TRUE when the environment variable GAM_API_KEY is set
    newResult       \* the Result MessageGenerator::new returned

genVars == <<gpc, call, attempts, inflight, response, genResult, deadlinePassed>>
flowVars == <<lpc, args_changelog, changelogResult>>
clVars ==
    <<changelog_file, prev_file, last_content, last_append, fresh, merged, nWrites, flowVars>>
repoVars == <<index, workdir, commits, head>>
cmVars == <<cpc, args_commit, repoVars, generator, staged_files, request, cmdResult, printed>>
vsVars == <<commit_infos, detected_version, rendered>>
rgVars == <<parents, refs, range_arg, resolved, rangeResult>>
tgVars == <<tpc, args_tag, tags, tagResult>>
cfVars == <<loaded_config, env_api_key, newResult>>
toolVars == <<vsVars, rgVars, tgVars, cfVars>>
vars == <<genVars, cmVars, clVars, toolVars>>

(***************************************************************************)
(* Text helpers                                                            *)
(***************************************************************************)

\* char::is_whitespace, on the characters the model uses.
IsWhitespace(c) == c \in {" ", "\n", "\t", "\r"}

\* str::trim_start: drop the leading whitespace characters.
RECURSIVE TrimStart(_)
TrimStart(s) ==
    IF s = <<>> THEN <<>>
    ELSE IF IsWhitespace(Head(s)) THEN TrimStart(Tail(s))
    ELSE s

\* str::trim_end: drop the trailing whitespace characters.
RECURSIVE TrimEnd(_)
TrimEnd(s) ==
    IF s = <<>> THEN <<>>
    ELSE IF IsWhitespace(s[Len(s)]) THEN TrimEnd(SubSeq(s, 1, Len(s) - 1))
    ELSE s

\* A trim that leaves the trailing whitespace in place.
TrimLeadingOnly(s) == TrimStart(s)

\* str::trim, as used on the completion (llm.rs:83) and on a line (changelog.rs:82).
Trim(s) == TrimEnd(TrimStart(s))

\* str::starts_with(prefix)
StartsWith(s, p) == Len(s) >= Len(p) /\ SubSeq(s, 1, Len(p)) = p

\* str::ends_with(suffix)
EndsWith(s, p) == Len(s) >= Len(p) /\ SubSeq(s, Len(s) - Len(p) + 1, Len(s)) = p

\* str::contains(pattern)
Contains(s, p) ==
    \E i \in 0..(Len(s) - Len(p)) : SubSeq(s, i + 1, i + Len(p)) = p

\* The header create_new_changelog writes (changelog.rs:56-58).
StandardHeader ==
    <<"#"," ","C","h","a","n","g","e","l","o","g","\n","\n","A","l","l"," ","n","o","t","a",
      "b","l","e"," ","c","h","a","n","g","e","s"," ","t","o"," ","t","h","i","s"," ","p",
      "r","o","j","e","c","t"," ","w","i","l","l"," ","b","e"," ","d","o","c","u","m","e",
      "n","t","e","d"," ","i","n"," ","t","h","i","s"," ","f","i","l","e",".","\n","\n","T",
      "h","e"," ","f","o","r","m","a","t"," ","i","s"," ","b","a","s","e","d"," ","o","n",
      " ","[","K","e","e","p"," ","a"," ","C","h","a","n","g","e","l","o","g","]","(","h",
      "t","t","p","s",":","/","/","k","e","e","p","a","c","h","a","n","g","e","l","o","g",
      ".","c","o","m","/","e","n","/","1",".","0",".","0","/",")",",","\n","a","n","d"," ",
      "t","h","i","s"," ","p","r","o","j","e","c","t"," ","a","d","h","e","r","e","s"," ",
      "t","o"," ","[","S","e","m","a","n","t","i","c"," ","V","e","r","s","i","o","n","i",
      "n","g","]","(","h","t","t","p","s",":","/","/","s","e","m","v","e","r",".","o","r",
      "g","/","s","p","e","c","/","v","2",".","0",".","0",".","h","t","m","l",")",".","\n",
      "\n">>

(***************************************************************************)
(* The generation call: MessageGenerator::generate_* (llm.rs)              *)
(***************************************************************************)

\* Longest provider answer the model draws.
MaxCompletionLen == 6

\* The backtick character (a TLA+ string literal cannot hold it).
Backtick == "backtick"

\* The characters of a provider answer: two whitespace characters, the
\* backtick of a code fence, and a letter.
Alphabet == {" ", "\n", Backtick, "a"}

Texts(n) == UNION {[1..k -> Alphabet] : k \in 0..n}

\* What the provider may answer with.
Completions == Texts(MaxCompletionLen)

\* The failures the awaited request may evaluate to (rig's CompletionError:
\* an HTTP/transport error or an error reported by the provider).
ProviderErrors == {"transport", "provider"}

\* Result<String>
NoResult == [kind |-> "none", text |-> <<>>, error |-> "none"]
Ok(t) == [kind |-> "ok", text |-> t, error |-> "none"]
Err(e) == [kind |-> "err", text |-> <<>>, error |-> e]

\* The three entry points; each builds its prompts and issues one request.
Calls == {"generate_commit_message", "generate_tag_message",
          "generate_changelog_summary"}

\* self.client.completion(..).chat(&user_prompt, None): the request is sent
\* and the call suspends at .await.
SendChat(c) ==
    /\ gpc = "idle"
    /\ gpc' = "awaiting"
    /\ call' = c
    /\ attempts' = attempts + 1
    /\ inflight' = inflight + 1
    /\ deadlinePassed' = FALSE
    /\ UNCHANGED <<response, genResult>>

\* What the function returns for the value of the awaited request:
\* `.await?` propagates the error, `Ok(completion.trim().to_string())`
\* otherwise.
GenerateReturn(r) ==
    IF r.kind = "ok" THEN Ok(Trim(r.text)) ELSE Err(r.error)

generate_commit_message ==
    /\ SendChat("generate_commit_message")
    /\ UNCHANGED <<cmVars, clVars, toolVars>>

generate_tag_message ==
    /\ SendChat("generate_tag_message")
    /\ UNCHANGED <<cmVars, clVars, toolVars>>

generate_changelog_summary ==
    /\ SendChat("generate_changelog_summary")
    /\ UNCHANGED <<cmVars, clVars, toolVars>>

\* The awaited request completes with r and the function runs to its end.
ChatReturns(r) ==
    /\ gpc = "awaiting"
    /\ response' = r
    /\ inflight' = inflight - 1
    /\ genResult' = GenerateReturn(r)
    /\ gpc' = "returned"
    /\ UNCHANGED <<call, attempts, deadlinePassed>>

\* The provider answers with a text.
ChatOk ==
    /\ gpc = "awaiting"
    /\ \E t \in Completions : ChatReturns(Ok(t))
    /\ UNCHANGED <<cmVars, clVars, toolVars>>

\* The request fails.
ChatErr ==
    /\ gpc = "awaiting"
    /\ \E e \in ProviderErrors : ChatReturns(Err(e))
    /\ UNCHANGED <<cmVars, clVars, toolVars>>

\* Thirty seconds pass while the request is pending.  The code arms no timer
\* (no tokio::time::timeout, no client timeout), so nothing else changes.
BudgetElapses ==
    /\ gpc = "awaiting"
    /\ ~deadlinePassed
    /\ deadlinePassed' = TRUE
    /\ UNCHANGED <<gpc, call, attempts, inflight, response, genResult>>
    /\ UNCHANGED <<cmVars, clVars, toolVars>>

\* Option<T>
None == <<>>
Some(x) == <<x>>

GenIdle ==
    /\ gpc = "idle"
    /\ call = "none"
    /\ attempts = 0
    /\ inflight = 0
    /\ response = NoResult
    /\ genResult = NoResult
    /\ deadlinePassed = FALSE

EmptyTree == [p \in {} |-> 0]

CmIdle ==
    /\ cpc = "start"
    /\ args_commit = FALSE
    /\ index = EmptyTree
    /\ workdir = EmptyTree
    /\ commits = <<>>
    /\ head = 0
    /\ generator = None
    /\ staged_files = None
    /\ request = None
    /\ cmdResult = NoResult
    /\ printed = <<>>

ClIdle ==
    /\ changelog_file = <<>>
    /\ prev_file = <<>>
    /\ last_content = <<>>
    /\ last_append = FALSE
    /\ fresh = FALSE
    /\ merged = <<>>
    /\ nWrites = 0
    /\ lpc = "start"
    /\ args_changelog = None
    /\ changelogResult = NoResult

VsIdle ==
    /\ commit_infos = <<>>
    /\ detected_version = None
    /\ rendered = None

RgIdle ==
    /\ parents = <<>>
    /\ refs = [r \in {} |-> 0]
    /\ range_arg = <<>>
    /\ resolved = <<>>
    /\ rangeResult = NoResult

TgIdle ==
    /\ tpc = "start"
    /\ args_tag = None
    /\ tags = [n \in {} |-> 0]
    /\ tagResult = NoResult

CfIdle ==
    /\ loaded_config = None
    /\ env_api_key = FALSE
    /\ newResult = NoResult

ToolIdle == VsIdle /\ RgIdle /\ TgIdle /\ CfIdle

GenerateInit == GenIdle /\ CmIdle /\ ClIdle /\ ToolIdle

GenerateNext ==
    \/ generate_commit_message
    \/ generate_tag_message
    \/ generate_changelog_summary
    \/ ChatOk
    \/ ChatErr
    \/ BudgetElapses

GenerateSpec == GenerateInit /\ [][GenerateNext]_vars

(***************************************************************************)
(* Claims about the generation call                                        *)
(***************************************************************************)

\* C1: a generate call whose attempts all fail returns its error only after
\* exactly 3 attempts (1 initial + 2 retries), never two in flight at once.
C1_FailsOnlyAfterThreeAttempts ==
    /\ inflight <= 1
    /\ (gpc = "returned" /\ genResult.kind = "err") => attempts = 3

\* r is s without its leading and trailing whitespace, said without Trim:
\* s = (whitespace) r (whitespace) and r neither starts nor ends with one.
IsTrimOf(r, s) ==
    \E i \in 0..Len(s) : \E j \in 0..(Len(s) - i) :
        /\ r = SubSeq(s, i + 1, Len(s) - j)
        /\ \A k \in 1..i : IsWhitespace(s[k])
        /\ \A k \in (Len(s) - j + 1)..Len(s) : IsWhitespace(s[k])
        /\ r # <<>> => ~IsWhitespace(r[1]) /\ ~IsWhitespace(r[Len(r)])

\* C2: once an attempt got a successful response the call has returned
\* success with that response's trimmed content (the empty string included)
\* and no further attempt is made.
C2_SuccessReturnsTrimmedNoRetry ==
    /\ [](response.kind = "ok" =>
            /\ gpc = "returned"
            /\ inflight = 0
            /\ genResult.kind = "ok"
            /\ IsTrimOf(genResult.text, response.text))
    /\ [][response.kind = "ok" =>
            attempts' = attempts /\ genResult' = genResult]_vars

\* C2 witness: a successful response of whitespace only came back and the
\* caller got the empty string as a success.
C2_Witness ==
    /\ gpc = "returned"
    /\ response.kind = "ok"
    /\ response.text # <<>>
    /\ genResult = Ok(<<>>)
    /\ attempts = 1

\* C3: an attempt is never still pending once its 30-second budget has
\* elapsed: it is ended at that moment and counted as a Timeout failure, so
\* the call does not wait on a silent provider.
C3_AttemptEndsAtBudget ==
    ~(gpc = "awaiting" /\ inflight > 0 /\ deadlinePassed)

Fence == <<Backtick, Backtick, Backtick>>

\* C4: the text returned on success is the trimmed provider text, with the
\* outermost leading and trailing triple-backtick fence removed when the
\* trimmed text begins and ends with one.
C4_FenceStripped ==
    (gpc = "returned" /\ genResult.kind = "ok") =>
        LET t == Trim(response.text)
            fenced == Len(t) >= 2 * Len(Fence) /\ StartsWith(t, Fence) /\ EndsWith(t, Fence)
        IN  genResult.text =
                IF fenced THEN SubSeq(t, Len(Fence) + 1, Len(t) - Len(Fence)) ELSE t

(***************************************************************************)
(* The repository (git.rs) and the commit flow (cli.rs: handle_commit)     *)
(***************************************************************************)

\* Largest file content the model draws (0 stands for "no such file").
MaxContent == 2

\* Longest provider answer drawn in the commit flow.
MaxMessageLen == 1

\* The paths of the repository, in the diff engine's enumeration order.
PathSeq == <<"f", "g">>
Paths == {PathSeq[i] : i \in 1..Len(PathSeq)}

Contents == 0..MaxContent

\* A tree, the index or the working tree: the content at each path.
Trees == [Paths -> Contents]

\* The configurations Config::load may return.
Configs == [api_key : {"", "ENV", "sk"}, base_url : {"", "url"}, model : {"", "gpt"}]

\* A validation that does not look at the model name.
ValidateWithoutModel(cfg, envKey) ==
    IF cfg.api_key = "ENV" /\ ~envKey THEN FALSE
    ELSE IF cfg.api_key = "" THEN FALSE
    ELSE IF cfg.base_url = "" THEN FALSE
    ELSE TRUE

\* Config::validate (config.rs:225-245); envKey: GAM_API_KEY is set.
Validate(cfg, envKey) ==
    IF cfg.api_key = "ENV" /\ ~envKey THEN FALSE
    ELSE IF cfg.api_key = "" THEN FALSE
    ELSE IF cfg.base_url = "" THEN FALSE
    ELSE IF cfg.model = "" THEN FALSE
    ELSE TRUE

\* The endpoint of a client made by openai::Client::new(api_key): rig's
\* built-in OpenAI address, whatever the configuration holds (llm.rs:30).
OpenAIApiBaseUrl == "https://api.openai.com/v1"

\* The MessageGenerator that MessageGenerator::new builds from a validated
\* configuration (llm.rs:30-36): the client is made from the api_key text
\* alone.
MakeGenerator(cfg) ==
    [client |-> [api_key |-> cfg.api_key, base_url |-> OpenAIApiBaseUrl],
     model |-> cfg.model, config |-> cfg]

\* The status string of one delta of diff_index_to_workdir with
\* include_untracked (git.rs:53-60).  libgit2 reports a path that is in the
\* working tree and not in the index as Untracked, which falls to `_`.
DeltaStatus(old, new) ==
    IF old = 0 THEN "unknown"
    ELSE IF new = 0 THEN "deleted"
    ELSE "modified"

\* The StagedFile entries for the paths PathSeq[i..], in enumeration order.
RECURSIVE StagedFrom(_, _, _)
StagedFrom(i, idx, wd) ==
    IF i > Len(PathSeq) THEN <<>>
    ELSE LET p == PathSeq[i]
             rest == StagedFrom(i + 1, idx, wd)
         IN  IF idx[p] # wd[p]
             THEN <<[path |-> p, status |-> DeltaStatus(idx[p], wd[p])]>> \o rest
             ELSE rest

\* GitRepo::get_staged_files: one entry per delta between the index and the
\* working tree, untracked files included.
get_staged_files(idx, wd) == StagedFrom(1, idx, wd)

\* GitRepo::get_staged_diff: the patch of the same diff; the model keeps the
\* paths the patch has hunks for.
get_staged_diff(idx, wd) == {p \in Paths : idx[p] # wd[p]}

\* The emptiness test inverted.
NoStagedChangesInverted(files) == Len(files) # 0

\* `staged_files.is_empty()` (cli.rs:94).
NoStagedChanges(files) == Len(files) = 0

NoStagedMsg == "No staged changes found. Please stage your changes first."
CommitCreatedMsg == "Commit created successfully!"
GeneratedMsg == "Generated commit message:"
UseCommitFlagMsg == "Use --commit flag to create the commit automatically."

\* handle_commit returns at once with error e.
CommitFails(e) ==
    /\ cpc' = "done"
    /\ cmdResult' = Err(e)
    /\ UNCHANGED <<repoVars, genVars, staged_files, request, printed>>

\* handle_commit from its start to its first suspension or return
\* (cli.rs:87-100): open the repository (isRepo), construct the generator
\* (Config::load succeeds: loads; Config::validate), list the staged files
\* (the diff engine succeeds: diffOk), return when there are none, else send
\* the request.
handle_commit ==
    /\ cpc = "start"
    /\ \E commitFlag \in BOOLEAN, isRepo \in BOOLEAN, loads \in BOOLEAN,
          cfg \in Configs, envKey \in BOOLEAN, diffOk \in BOOLEAN :
        /\ args_commit' = commitFlag
        /\ IF ~isRepo
           THEN CommitFails("repository") /\ generator' = None
           ELSE IF ~loads \/ ~Validate(cfg, envKey)
           THEN CommitFails("configuration") /\ generator' = None
           ELSE IF ~diffOk
           THEN /\ CommitFails("repository")
                /\ generator' = Some(MakeGenerator(cfg))
           ELSE /\ generator' = Some(MakeGenerator(cfg))
                /\ staged_files' = Some(get_staged_files(index, workdir))
                /\ IF NoStagedChanges(get_staged_files(index, workdir))
                   THEN /\ printed' = <<NoStagedMsg>>
                        /\ cmdResult' = Ok(<<>>)
                        /\ cpc' = "done"
                        /\ UNCHANGED <<repoVars, genVars, request>>
                   ELSE /\ request' = Some([files |-> get_staged_files(index, workdir),
                                            diff |-> get_staged_diff(index, workdir)])
                        /\ SendChat("generate_commit_message")
                        /\ cpc' = "awaiting"
                        /\ UNCHANGED <<repoVars, cmdResult, printed>>
    /\ UNCHANGED <<clVars, toolVars>>

\* A create_commit that does not need a HEAD commit.
create_commit_unchecked == TRUE

\* GitRepo::create_commit(message) (git.rs:177-193): the index tree becomes
\* a commit whose parent is the HEAD commit; fails on an unborn HEAD.
create_commit_ok == head # 0

create_commit(message) ==
    /\ commits' = Append(commits, [tree |-> index, message |-> message, parent |-> head])
    /\ head' = Len(commits) + 1
    /\ UNCHANGED <<index, workdir>>

\* The answers the provider may give in the commit flow.
CommitAnswers ==
    {Ok(t) : t \in Texts(MaxMessageLen)} \cup {Err(e) : e \in ProviderErrors}

\* handle_commit from the answer of the provider to its return
\* (cli.rs:100-110).
handle_commit_resume ==
    /\ cpc = "awaiting"
    /\ \E r \in CommitAnswers :
        /\ ChatReturns(r)
        /\ cpc' = "done"
        /\ LET message == GenerateReturn(r)
           IN  IF message.kind = "err"
               THEN /\ cmdResult' = message
                    /\ UNCHANGED <<repoVars, printed>>
               ELSE IF args_commit
               THEN IF create_commit_ok
                    THEN /\ create_commit(message.text)
                         /\ printed' = <<CommitCreatedMsg>>
                         /\ cmdResult' = Ok(<<>>)
                    ELSE /\ cmdResult' = Err("repository")
                         /\ UNCHANGED <<repoVars, printed>>
               ELSE /\ printed' = <<GeneratedMsg, message.text, UseCommitFlagMsg>>
                    /\ cmdResult' = Ok(<<>>)
                    /\ UNCHANGED repoVars
    /\ UNCHANGED <<args_commit, generator, staged_files, request>>
    /\ UNCHANGED <<clVars, toolVars>>

\* The budget of the pending request elapses during the commit flow.
CommitBudgetElapses ==
    /\ cpc = "awaiting"
    /\ BudgetElapses

\* The repository the command runs in: any index and working tree, HEAD
\* unborn or at a root commit.
CommitInit ==
    /\ GenIdle
    /\ ClIdle
    /\ ToolIdle
    /\ cpc = "start"
    /\ args_commit = FALSE
    /\ index \in Trees
    /\ workdir \in Trees
    /\ \/ commits = <<>> /\ head = 0
       \/ \E t \in Trees :
            /\ commits = <<[tree |-> t, message |-> <<"a">>, parent |-> 0]>>
            /\ head = 1
    /\ generator = None
    /\ staged_files = None
    /\ request = None
    /\ cmdResult = NoResult
    /\ printed = <<>>

CommitNext ==
    \/ handle_commit
    \/ handle_commit_resume
    \/ CommitBudgetElapses

CommitSpec == CommitInit /\ [][CommitNext]_vars

(***************************************************************************)
(* Claims about the commit flow                                            *)
(***************************************************************************)

\* C5: when the staged file list is empty the commit flow issues no
\* generation request and creates no commit: it ends successfully after
\* printing a message, with the repository unchanged.
C5_NoStagedChangesIsNoOp ==
    /\ [](staged_files = Some(<<>>) =>
            /\ cpc = "done"
            /\ attempts = 0
            /\ inflight = 0
            /\ request = None
            /\ cmdResult.kind = "ok"
            /\ printed = <<NoStagedMsg>>)
    /\ [][staged_files' = Some(<<>>) => UNCHANGED repoVars]_vars

\* C5 witness: the flow ran in a repository with a commit and nothing to
\* stage, and has returned.
C5_Witness ==
    /\ cpc = "done"
    /\ staged_files = Some(<<>>)
    /\ index = workdir
    /\ head = 1
    /\ cmdResult.kind = "ok"

(***************************************************************************)
(* The changelog document (changelog.rs)                                   *)
(***************************************************************************)

\* Most write_changelog calls in one behaviour.
MaxWrites == 3

\* The positions just past the end of each line of s: every "\n", and the
\* end of the text when its last line has no terminator.
LineEnds(s) ==
    {i \in 1..Len(s) : s[i] = "\n"}
        \cup (IF s # <<>> /\ s[Len(s)] # "\n" THEN {Len(s) + 1} ELSE {})

\* The k-th smallest element of the set of positions E.
Nth(E, k) == CHOOSE e \in E : Cardinality({x \in E : x <= e}) = k

\* existing_content.lines().collect() (changelog.rs:76): str::lines ends a
\* line at "\n" (a "\r" before it is dropped too); a last line without a
\* terminator counts, an empty rest after the last "\n" does not.
Lines(s) ==
    LET E == LineEnds(s)
        first(k) == IF k = 1 THEN 1 ELSE Nth(E, k - 1) + 1
        last(k) ==
            LET e == Nth(E, k)
            IN  IF e <= Len(s) /\ e > first(k) /\ s[e - 1] = "\r" THEN e - 2 ELSE e - 1
    IN  [k \in 1..Cardinality(E) |-> SubSeq(s, first(k), last(k))]

\* new_lines.join("\n") (changelog.rs:90)
RECURSIVE Join(_)
Join(ls) ==
    IF ls = <<>> THEN <<>>
    ELSE IF Len(ls) = 1 THEN ls[1]
    ELSE ls[1] \o <<"\n">> \o Join(Tail(ls))

\* The text existing_content is searched for (changelog.rs:74).
ChangelogMarker ==
    <<"#"," ","C","h","a","n","g","e","l","o","g">>

\* The loop condition of changelog.rs:82 at the line in position k (counted
\* from 1): a blank line, not the first, whose predecessor starts with '#'.
IsHeaderEnd(lines, k) ==
    /\ Trim(lines[k]) = <<>>
    /\ k > 1
    /\ StartsWith(lines[k - 1], <<"#">>)

\* The number of lines the loop of changelog.rs:80-86 pushes: it stops at the
\* first header end, or runs over all lines.
Pushed(lines) ==
    IF \E k \in 1..Len(lines) : IsHeaderEnd(lines, k)
    THEN CHOOSE k \in 1..Len(lines) :
            /\ IsHeaderEnd(lines, k)
            /\ \A j \in 1..(k - 1) : ~IsHeaderEnd(lines, j)
    ELSE Len(lines)

\* header_end after the loop: i + 1 at the break, else its initial 0.
HeaderEnd(lines) ==
    IF \E k \in 1..Len(lines) : IsHeaderEnd(lines, k) THEN Pushed(lines) ELSE 0

\* The content put after all the lines instead of after the header.
InsertAtEnd(lines, content) == lines \o <<content>>

\* The lines written when the marker is found (changelog.rs:76-89): the
\* lines pushed by the loop, the content, then lines[header_end..].
InsertAfterHeader(lines, content) ==
    SubSeq(lines, 1, Pushed(lines)) \o <<content>>
        \o SubSeq(lines, HeaderEnd(lines) + 1, Len(lines))

\* new_content of append_to_changelog (changelog.rs:74-94).
NewContent(existing_content, content) ==
    IF Contains(existing_content, ChangelogMarker)
    THEN Join(InsertAfterHeader(Lines(existing_content), content))
    ELSE content

\* format!("## [{}] - {}\n\n{}", version, date, summary) (changelog.rs:39)
RenderSection(version, date, summary) ==
    <<"#", "#", " ", "[">> \o version \o <<"]", " ", "-", " ">> \o date
        \o <<"\n", "\n">> \o summary

Version010 ==
    <<"0",".","1",".","0">>

Version001 ==
    <<"0",".","0",".","1">>

VersionV2 ==
    <<"v","2">>

Date20250101 ==
    <<"2","0","2","5","-","0","1","-","0","1">>

SummaryDidAThing ==
    <<"-"," ","d","i","d"," ","a"," ","t","h","i","n","g">>

SummaryFixed ==
    <<"#","#","#"," ","F","i","x","e","d","\n","\n","-"," ","x">>

\* The section of the specification's example.
Section010 == RenderSection(Version010, Date20250101, SummaryDidAThing)

\* The contents generate_changelog may hand to write_changelog: a one-line
\* summary, a summary with a sub-heading, and an empty summary.
Sections ==
    { Section010,
      RenderSection(Version001, Date20250101, SummaryFixed),
      RenderSection(VersionV2, Date20250101, <<>>) }

\* The document of the specification's example.
DocExample ==
    <<"#"," ","C","h","a","n","g","e","l","o","g","\n","\n","A","l","l"," ","n","o","t","a",
      "b","l","e"," ","c","h","a","n","g","e","s",".",".",".","\n","\n">>

DocTitleOnly ==
    <<"#"," ","C","h","a","n","g","e","l","o","g">>

DocTitleNoBlank ==
    <<"#"," ","C","h","a","n","g","e","l","o","g","\n","i","n","t","r","o","\n">>

DocNoMarker ==
    <<"o","l","d"," ","n","o","t","e","s","\n">>

DocOtherTitle ==
    <<"#"," ","N","o","t","e","s","\n","\n","o","l","d","\n">>

\* What the file at output_path may hold before the first call (empty: the
\* file does not exist or is empty).
InitialDocs ==
    { <<>>, DocExample, DocTitleOnly, DocTitleOnly \o <<"\n">>, DocTitleNoBlank,
      DocNoMarker, DocOtherTitle, StandardHeader }

\* The arguments of the call and the contents it found, kept as history.
Recorded(content, append) ==
    /\ prev_file' = changelog_file
    /\ last_content' = content
    /\ last_append' = append
    /\ nWrites' = nWrites + 1

\* ChangelogGenerator::create_new_changelog (changelog.rs:53-62)
create_new_changelog(content) ==
    /\ changelog_file' = StandardHeader \o content
    /\ fresh' = TRUE
    /\ merged' = <<content>>

\* ChangelogGenerator::append_to_changelog (changelog.rs:64-101)
append_to_changelog(content) ==
    /\ changelog_file' = NewContent(changelog_file, content)
    /\ fresh' = fresh
    /\ merged' = IF fresh THEN Append(merged, content) ELSE merged

\* ChangelogGenerator::write_changelog (changelog.rs:44-51)
write_changelog ==
    /\ nWrites < MaxWrites
    /\ \E content \in Sections, append \in BOOLEAN :
        /\ IF append THEN append_to_changelog(content)
                     ELSE create_new_changelog(content)
        /\ Recorded(content, append)
    /\ UNCHANGED <<flowVars, genVars, cmVars, toolVars>>

ChangelogInit ==
    /\ GenIdle
    /\ CmIdle
    /\ ToolIdle
    /\ changelog_file \in InitialDocs
    /\ prev_file = <<>>
    /\ last_content = <<>>
    /\ last_append = FALSE
    /\ fresh = FALSE
    /\ merged = <<>>
    /\ nWrites = 0
    /\ lpc = "start"
    /\ args_changelog = None
    /\ changelogResult = NoResult

ChangelogNext == write_changelog

ChangelogSpec == ChangelogInit /\ [][ChangelogNext]_vars

(***************************************************************************)
(* Claims about the changelog document                                     *)
(***************************************************************************)

\* The last call was write_changelog(last_content, append = true) on a file
\* holding prev_file.
Appended == nWrites > 0 /\ last_append

\* The number of lines of ls equal to l.
Count(ls, l) == Cardinality({i \in 1..Len(ls) : ls[i] = l})

TitleLine == ChangelogMarker

ExampleParagraph ==
    <<"A","l","l"," ","n","o","t","a","b","l","e"," ","c","h","a","n","g","e","s",".",".",
      ".">>

\* C6: merging the example section into the example document with
\* append=true leaves the header (title line, blank line, paragraph)
\* unchanged and present once, and the block right after the header is
\* exactly the rendered section.
C6_ExampleSectionFollowsHeader ==
    (Appended /\ prev_file = DocExample /\ last_content = Section010) =>
        LET ls == Lines(changelog_file)
        IN  /\ StartsWith(ls, <<TitleLine, <<>>, ExampleParagraph, <<>>>>
                                \o Lines(Section010))
            /\ Count(ls, TitleLine) = 1
            /\ Count(ls, ExampleParagraph) = 1

\* a is a subsequence of b: the elements of a occur in b in the same order.
RECURSIVE IsSubsequence(_, _)
IsSubsequence(a, b) ==
    IF a = <<>> THEN TRUE
    ELSE IF b = <<>> THEN FALSE
    ELSE IF Head(a) = Head(b) THEN IsSubsequence(Tail(a), Tail(b))
    ELSE IsSubsequence(a, Tail(b))

NonEmptyLines(s) == SelectSeq(Lines(s), LAMBDA l : l # <<>>)

\* C7: a merge with append=true loses nothing: the non-empty lines of the
\* input occur in the output in the same relative order, and the output has
\* at least as many lines as the input.
C7_AppendLosesNoLine ==
    Appended =>
        /\ IsSubsequence(NonEmptyLines(prev_file), Lines(changelog_file))
        /\ Len(Lines(changelog_file)) >= Len(Lines(prev_file))

\* The document has a header marker: a line starting with '#'.
HasHeaderMarker(s) == \E i \in 1..Len(Lines(s)) : StartsWith(Lines(s)[i], <<"#">>)

\* C8: a merge with append=true into contents without a header marker gives
\* the rendered section followed by the whole existing content, unchanged.
C8_NoMarkerKeepsContentAfterSection ==
    (Appended /\ ~HasHeaderMarker(prev_file)) =>
        /\ StartsWith(changelog_file, last_content)
        /\ EndsWith(changelog_file, prev_file)
        /\ Len(changelog_file) >= Len(last_content) + Len(prev_file)

\* No blank line of the document directly follows a line starting with '#'.
NoBlankAfterTitle(s) ==
    \A k \in 1..Len(Lines(s)) : ~IsHeaderEnd(Lines(s), k)

\* C9: a merge with append=true into a document with a header marker and no
\* blank line directly after a '#' line gives every original line once, in
\* the original order, followed by the section.
C9_DegenerateHeaderKeepsLinesOnce ==
    (Appended /\ HasHeaderMarker(prev_file) /\ NoBlankAfterTitle(prev_file)) =>
        Lines(changelog_file) = Lines(prev_file) \o Lines(last_content)

\* The heading line of a rendered section, and the test for such a line.
HeadingOf(section) == Lines(section)[1]
IsHeading(line) == StartsWith(line, <<"#", "#", " ", "[">>)

Reverse(q) == [i \in 1..Len(q) |-> q[Len(q) + 1 - i]]

C11_AppendIsIdempotent ==
    [][(Appended /\ last_append' /\ last_content' = last_content)
            => changelog_file' = changelog_file]_vars

(***************************************************************************)
(* A changelog entry's commits: detect_version_from_commits and the short  *)
(* SHAs (changelog.rs, llm.rs)                                             *)
(***************************************************************************)

UpperCase ==
    <<"A","B","C","D","E","F","G","H","I","J","K","L","M","N","O","P","Q","R","S","T","U",
      "V","W","X","Y","Z">>

LowerCase ==
    <<"a","b","c","d","e","f","g","h","i","j","k","l","m","n","o","p","q","r","s","t","u",
      "v","w","x","y","z">>

\* char::to_lowercase, on the characters the model uses.
ToLowerChar(c) ==
    IF \E i \in 1..Len(UpperCase) : UpperCase[i] = c
    THEN LowerCase[CHOOSE i \in 1..Len(UpperCase) : UpperCase[i] = c]
    ELSE c

\* str::to_lowercase
to_lowercase(s) == [i \in 1..Len(s) |-> ToLowerChar(s[i])]

\* char::is_alphanumeric, on the characters the model uses.
is_alphanumeric(c) ==
    \/ c \in {"0","1","2","3","4","5","6","7","8","9"}
    \/ \E i \in 1..Len(UpperCase) : c = UpperCase[i] \/ c = LowerCase[i]

\* str::split_whitespace().collect(): the maximal runs of non-whitespace
\* characters, in order.
split_whitespace(s) ==
    LET starts == {i \in 1..Len(s) :
                    ~IsWhitespace(s[i]) /\ (i = 1 \/ IsWhitespace(s[i - 1]))}
        end(i) == CHOOSE j \in i..Len(s) :
                    /\ \A k \in i..j : ~IsWhitespace(s[k])
                    /\ (j = Len(s) \/ IsWhitespace(s[j + 1]))
    IN  [k \in 1..Cardinality(starts) |-> SubSeq(s, Nth(starts, k), end(Nth(starts, k)))]

\* next_word.trim_matches(|c| !c.is_alphanumeric()) (changelog.rs:116):
\* drops the non-alphanumeric characters at both ends.
trim_matches(w) ==
    LET keep == {i \in 1..Len(w) : is_alphanumeric(w[i])}
    IN  IF keep = {} THEN <<>>
        ELSE SubSeq(w, CHOOSE i \in keep : \A j \in keep : i <= j,
                       CHOOSE i \in keep : \A j \in keep : j <= i)

Unreleased == <<"U","n","r","e","l","e","a","s","e","d">>

WordVersion == <<"v","e","r","s","i","o","n">>

WordRelease == <<"r","e","l","e","a","s","e">>

PrefixFeat == <<"f","e","a","t">>

PrefixFix == <<"f","i","x">>

PrefixDocs == <<"d","o","c","s">>

\* The positions i of the words of a lowercased message where the inner loop
\* assigns version (changelog.rs:111-115): word i contains "version" or
\* "release", a next word exists, starts with 'v' and is longer than 1.
TokenPositions(words) ==
    {i \in 1..Len(words) :
        /\ Contains(words[i], WordVersion) \/ Contains(words[i], WordRelease)
        /\ i + 1 <= Len(words)
        /\ StartsWith(words[i + 1], <<"v">>)
        /\ Len(words[i + 1]) > 1}

\* One round of the loop over the commits (changelog.rs:106-123): the inner
\* loop assigns at the first such position and breaks; a commit without one
\* leaves version as it was.
ScanCommit(ver, message) ==
    LET lowered == to_lowercase(message)
        words == split_whitespace(lowered)
        at == TokenPositions(words)
    IN  IF (Contains(lowered, WordVersion) \/ Contains(lowered, WordRelease)) /\ at # {}
        THEN trim_matches(words[(CHOOSE i \in at : \A j \in at : i <= j) + 1])
        ELSE ver

RECURSIVE ScanCommits(_, _)
ScanCommits(ver, messages) ==
    IF messages = <<>> THEN ver
    ELSE ScanCommits(ScanCommit(ver, Head(messages)), Tail(messages))

\* A fallback that answers "0.1.0" for fixes and "0.0.1" for features.
FallbackSwapped(messages) ==
    IF \E i \in 1..Len(messages) : StartsWith(to_lowercase(messages[i]), PrefixFix)
    THEN Version010
    ELSE Version001

\* The fallback when version is still "Unreleased" (changelog.rs:126-138).
Fallback(messages) ==
    LET has_feat == \E i \in 1..Len(messages) :
                        StartsWith(to_lowercase(messages[i]), PrefixFeat)
        has_fix == \E i \in 1..Len(messages) :
                        StartsWith(to_lowercase(messages[i]), PrefixFix)
    IN  IF has_feat THEN Version010
        ELSE IF has_fix THEN Version001
        ELSE Version001

\* detect_version_from_commits (changelog.rs:103-141), on the messages.
DetectVersion(messages) ==
    LET ver == ScanCommits(Unreleased, messages)
    IN  IF ver = Unreleased THEN Fallback(messages) ELSE ver

\* The 8 of &commit.sha[..8] (changelog.rs:158, llm.rs:153).
ShortShaLen == 8

\* &sha[..8] is defined when the text has 8 characters or more and panics
\* ("byte index 8 is out of range") when it is shorter.
SlicePanics(sha) == Len(sha) < ShortShaLen

ShortSha(sha) == SubSeq(sha, 1, ShortShaLen)

Panicked == [kind |-> "panic", text |-> <<>>, error |-> "byte index out of range"]

\* format!("- {}: {} ({}) by {}", c.sha[..8], c.message.trim(), c.date,
\* c.author) (llm.rs:152-153)
SummaryDetail(c) ==
    <<"-", " ">> \o ShortSha(c.sha) \o <<":", " ">> \o Trim(c.message)
        \o <<" ", "(">> \o c.date \o <<")", " ", "b", "y", " ">> \o c.author

\* format!("- {} ({}) - {}", &commit.sha[..8], message, commit.author)
\* (changelog.rs:158-164)
DefaultEntry(c) ==
    <<"-", " ">> \o ShortSha(c.sha) \o <<" ", "(">> \o Trim(c.message)
        \o <<")", " ", "-", " ">> \o c.author

\* The entries of the commits whose trimmed, lowercased message is of the
\* given kind (changelog.rs:155-166).
RECURSIVE EntriesOf(_, _)
EntriesOf(infos, kind) ==
    IF infos = <<>> THEN <<>>
    ELSE LET m == to_lowercase(Trim(Head(infos).message))
             k == IF StartsWith(m, PrefixFeat) THEN "features"
                  ELSE IF StartsWith(m, PrefixFix) THEN "fixes"
                  ELSE IF StartsWith(m, PrefixDocs) THEN "docs"
                  ELSE "others"
         IN  (IF k = kind THEN <<DefaultEntry(Head(infos))>> ELSE <<>>)
                 \o EntriesOf(Tail(infos), kind)

\* Vec<String>::join("\n")
RECURSIVE JoinLines(_)
JoinLines(items) ==
    IF items = <<>> THEN <<>>
    ELSE IF Len(items) = 1 THEN items[1]
    ELSE items[1] \o <<"\n">> \o JoinLines(Tail(items))

HeadingAdded == <<"#","#","#"," ","A","d","d","e","d","\n","\n">>

HeadingFixed == <<"#","#","#"," ","F","i","x","e","d","\n","\n">>

HeadingDocumentation == <<"#","#","#"," ","D","o","c","u","m","e","n","t","a","t","i","o","n","\n","\n">>

HeadingOther == <<"#","#","#"," ","O","t","h","e","r"," ","C","h","a","n","g","e","s","\n","\n">>

\* One group of the default changelog (changelog.rs:169-191).
Group(heading, entries) ==
    IF entries = <<>> THEN <<>>
    ELSE heading \o JoinLines(entries) \o <<"\n", "\n">>

\* The text generate_default_changelog builds (changelog.rs:143-193).
DefaultChangelog(infos, date) ==
    LET ver == DetectVersion([i \in 1..Len(infos) |-> infos[i].message])
    IN  <<"#", "#", " ", "[">> \o ver \o <<"]", " ", "-", " ">> \o date \o <<"\n", "\n">>
            \o Group(HeadingAdded, EntriesOf(infos, "features"))
            \o Group(HeadingFixed, EntriesOf(infos, "fixes"))
            \o Group(HeadingDocumentation, EntriesOf(infos, "docs"))
            \o Group(HeadingOther, EntriesOf(infos, "others"))

\* ---- the commits an entry is generated from ----

MaxCommits == 2

MsgReleaseUpper ==
    <<"R","e","l","e","a","s","e"," ","v","1",".","0","-","R","C","1">>

MsgReleaseDot ==
    <<"r","e","l","e","a","s","e"," ","v","2",".","0",".">>

MsgFeat ==
    <<"f","e","a","t",":"," ","a","d","d"," ","x">>

MsgFeatUpper ==
    <<"F","e","a","t",":"," ","a","d","d"," ","y">>

MsgFix ==
    <<"f","i","x",":"," ","t","y","p","o">>

MsgReleaseNotes ==
    <<"d","o","c","s",":"," ","r","e","l","e","a","s","e"," ","n","o","t","e","s">>


MsgVersionBareV ==
    <<"v","e","r","s","i","o","n"," ","v">>


Messages ==
    {MsgReleaseUpper,
     MsgReleaseDot,
     MsgFeat,
     MsgFeatUpper,
     MsgFix,
     MsgReleaseNotes,
     MsgVersionBareV}

\* commit.id().to_string() is 40 hexadecimal characters (git.rs:127); the
\* functions are public and take any CommitInfo, so shorter texts occur too.
FullSha ==
    <<"0","1","2","3","4","5","6","7","8","9","a","b","c","d","e","f","0","1","2","3","4",
      "5","6","7","8","9","a","b","c","d","e","f","0","1","2","3","4","5","6","7">>

Shas == {SubSeq(FullSha, 1, n) : n \in {7, 8, 40}}

AuthorAnn == <<"a", "n", "n">>

CommitInfos ==
    [sha : Shas, message : Messages, author : {AuthorAnn}, date : {Date20250101}]

CommitLists ==
    UNION {[1..n -> CommitInfos] : n \in 0..MaxCommits}

MessagesOf(infos) == [i \in 1..Len(infos) |-> infos[i].message]

\* detect_version_from_commits(commits) (changelog.rs:103-141): always Ok.
detect_version_from_commits ==
    /\ detected_version = None
    /\ detected_version' = Some(DetectVersion(MessagesOf(commit_infos)))
    /\ UNCHANGED <<commit_infos, rendered>>
    /\ UNCHANGED <<genVars, cmVars, clVars, rgVars, tgVars, cfVars>>

\* The commit_details of generate_changelog_summary (llm.rs:151-154): one
\* line for each commit, in order; the slice panics on a short SHA.
commit_details ==
    /\ rendered = None
    /\ rendered' =
        Some([by |-> "generate_changelog_summary",
              result |->
                IF \E i \in 1..Len(commit_infos) : SlicePanics(commit_infos[i].sha)
                THEN Panicked
                ELSE Ok(JoinLines([i \in 1..Len(commit_infos)
                                        |-> SummaryDetail(commit_infos[i])]))])
    /\ UNCHANGED <<commit_infos, detected_version>>
    /\ UNCHANGED <<genVars, cmVars, clVars, rgVars, tgVars, cfVars>>

\* generate_default_changelog(commits) (changelog.rs:143-193).
generate_default_changelog ==
    /\ rendered = None
    /\ rendered' =
        Some([by |-> "generate_default_changelog",
              result |->
                IF \E i \in 1..Len(commit_infos) : SlicePanics(commit_infos[i].sha)
                THEN Panicked
                ELSE Ok(DefaultChangelog(commit_infos, Date20250101))])
    /\ UNCHANGED <<commit_infos, detected_version>>
    /\ UNCHANGED <<genVars, cmVars, clVars, rgVars, tgVars, cfVars>>

VersionInit ==
    /\ GenIdle
    /\ CmIdle
    /\ ClIdle
    /\ RgIdle
    /\ TgIdle
    /\ CfIdle
    /\ commit_infos \in CommitLists
    /\ detected_version = None
    /\ rendered = None

VersionNext ==
    \/ detect_version_from_commits
    \/ commit_details
    \/ generate_default_changelog

VersionSpec == VersionInit /\ [][VersionNext]_vars

\* A word with its trailing non-alphanumeric characters removed, every other
\* character as written.
RECURSIVE StripTrailing(_)
StripTrailing(w) ==
    IF w = <<>> \/ is_alphanumeric(w[Len(w)]) THEN w
    ELSE StripTrailing(SubSeq(w, 1, Len(w) - 1))

\* The version tokens of a commit message, as written in the message: the
\* words that start with 'v', have one more character at least, and follow a
\* word holding "version" or "release" in any letter case.
VerbatimTokens(message) ==
    LET words == split_whitespace(message)
    IN  {StripTrailing(words[i + 1]) : i \in
            {j \in 1..(Len(words) - 1) :
                /\ \/ Contains(to_lowercase(words[j]), WordVersion)
                   \/ Contains(to_lowercase(words[j]), WordRelease)
                /\ StartsWith(words[j + 1], <<"v">>)
                /\ Len(words[j + 1]) > 1}}

\* C12: when a commit message holds "version" or "release" (any letter case)
\* followed by a word that starts with 'v' and is longer than one character,
\* the version label is that word as written in the message, letter case
\* kept, with only its trailing non-alphanumeric characters removed.
C12_VersionTokenVerbatim ==
    LET toks == UNION {VerbatimTokens(commit_infos[i].message) :
                            i \in 1..Len(commit_infos)}
    IN  (detected_version # None /\ toks # {}) => detected_version[1] \in toks

\* TRUE when no message of the commits yields a version token.
NoVersionToken ==
    \A i \in 1..Len(commit_infos) :
        TokenPositions(split_whitespace(to_lowercase(commit_infos[i].message))) = {}

\* C13 (as stated): with no version token, the label is "0.1.0" when a commit
\* message starts with "feat" and "0.0.1" in every other case.
C13_FallbackAsStated ==
    (detected_version # None /\ NoVersionToken)
        => detected_version[1] =
            (IF \E i \in 1..Len(commit_infos) :
                    StartsWith(commit_infos[i].message, PrefixFeat)
             THEN Version010 ELSE Version001)

\* C13 (amended): with no version token, the label is "0.1.0" when a commit
\* message starts with "feat" in any letter case and "0.0.1" in every other
\* case, the empty commit list included; it is never "Unreleased", and it is
\* a function of the commit messages alone.
C13_FallbackAnyCase ==
    (detected_version # None /\ NoVersionToken)
        => /\ detected_version[1] =
                (IF \E i \in 1..Len(commit_infos) :
                        StartsWith(to_lowercase(commit_infos[i].message), PrefixFeat)
                 THEN Version010 ELSE Version001)
           /\ detected_version[1] # Unreleased

\* A fix and a capitalised "Feat" commit, no version token: "0.1.0".
C13_Witness ==
    /\ detected_version = Some(Version010)
    /\ NoVersionToken
    /\ MessagesOf(commit_infos) = <<MsgFix, MsgFeatUpper>>

\* C16: rendering the short SHAs never fails: each commit's entry shows the
\* first min(8, length) characters of its SHA, in the commit details of the
\* changelog-summary prompt and in the default changelog.
C16_ShortShaNeverFails ==
    rendered # None =>
        /\ rendered[1].result.kind = "ok"
        /\ \A i \in 1..Len(commit_infos) :
            LET sha == commit_infos[i].sha
                n == IF Len(sha) < 8 THEN Len(sha) ELSE 8
                sep == IF rendered[1].by = "generate_changelog_summary"
                       THEN <<":", " ">> ELSE <<" ", "(">>
            IN  Contains(rendered[1].result.text,
                         <<"-", " ">> \o SubSeq(sha, 1, n) \o sep)

(***************************************************************************)
(* Commit ranges: GitRepo::get_commits_in_range (git.rs)                   *)
(***************************************************************************)

MaxNodes == 3

MaxRangeLen == 4

\* The commits of the repository, numbered in creation order.
Nodes == 1..MaxNodes

\* A commit's parents were created before it; a commit without parents is a
\* root, one with several is a merge.
Graphs ==
    {g \in [Nodes -> SUBSET Nodes] : \A c \in Nodes : \A q \in g[c] : q < c}

RefA == <<"a">>

RefB == <<"b">>

RefNames == {RefA, RefB}

\* The range arguments: every text of up to MaxRangeLen characters.
RangeExprs ==
    UNION {[1..n -> {"a", "b", "."}] : n \in 0..MaxRangeLen}

\* range.split("..").collect() (git.rs:155): the pieces between the
\* non-overlapping occurrences of "..", found from the left; a text without
\* ".." is one piece, and pieces may be empty.
RECURSIVE Split(_)
Split(s) ==
    LET at == {i \in 1..(Len(s) - 1) : s[i] = "." /\ s[i + 1] = "."}
    IN  IF at = {} THEN <<s>>
        ELSE LET i == CHOOSE j \in at : \A k \in at : j <= k
             IN  <<SubSeq(s, 1, i - 1)>> \o Split(SubSeq(s, i + 2, Len(s)))

\* repo.revparse_single(spec): the commit a reference name points to; any
\* other text, the empty one included, names nothing.
Resolves(spec) == spec \in DOMAIN refs

RangeOk(list) == [kind |-> "ok", commits |-> list, error |-> "none"]

RangeErr(e) == [kind |-> "err", commits |-> <<>>, error |-> e]

ErrInvalidRange == "Invalid range format. Use format: start..end"

ErrRevparse == "revspec not found"

\* revwalk.hide(start): start and every ancestor of it are left out.
RECURSIVE Hidden(_)
Hidden(c) == {c} \cup UNION {Hidden(q) : q \in parents[c]}

\* A walk that hides nothing.
RECURSIVE WalkAll(_, _, _)
WalkAll(queue, seen, hidden) ==
    IF queue = {} THEN <<>>
    ELSE LET c == CHOOSE x \in queue : \A y \in queue : y <= x
         IN  <<c>> \o WalkAll((queue \cup (parents[c] \ seen)) \ {c},
                              seen \cup parents[c], hidden)

\* The iteration of the revwalk (git.rs:167-171): the newest commit waiting
\* is taken; unless hidden it is yielded and its parents, when not met
\* before, wait in turn.
RECURSIVE Walk(_, _, _)
Walk(queue, seen, hidden) ==
    IF queue = {} THEN <<>>
    ELSE LET c == CHOOSE x \in queue : \A y \in queue : y <= x
         IN  IF c \in hidden
             THEN Walk(queue \ {c}, seen, hidden)
             ELSE <<c>> \o Walk((queue \cup (parents[c] \ seen)) \ {c},
                                seen \cup parents[c], hidden)

\* get_commits_in_range(range) (git.rs:154-175).
get_commits_in_range ==
    /\ rangeResult = NoResult
    /\ \E range \in RangeExprs :
        LET range_parts == Split(range)
        IN  /\ range_arg' = range
            /\ IF Len(range_parts) # 2
               THEN /\ rangeResult' = RangeErr(ErrInvalidRange)
                    /\ resolved' = <<>>
               ELSE IF ~Resolves(range_parts[1])
               THEN /\ rangeResult' = RangeErr(ErrRevparse)
                    /\ resolved' = <<range_parts[1]>>
               ELSE IF ~Resolves(range_parts[2])
               THEN /\ rangeResult' = RangeErr(ErrRevparse)
                    /\ resolved' = <<range_parts[1], range_parts[2]>>
               ELSE /\ rangeResult' =
                        RangeOk(Walk({refs[range_parts[2]]}, {refs[range_parts[2]]},
                                     Hidden(refs[range_parts[1]])))
                    /\ resolved' = <<range_parts[1], range_parts[2]>>
    /\ UNCHANGED <<parents, refs>>
    /\ UNCHANGED <<genVars, cmVars, clVars, vsVars, tgVars, cfVars>>

\* Any commit graph, with the names "a" and "b" on any two commits of it.
RangeInit ==
    /\ GenIdle
    /\ CmIdle
    /\ ClIdle
    /\ VsIdle
    /\ TgIdle
    /\ CfIdle
    /\ parents \in Graphs
    /\ refs \in [RefNames -> Nodes]
    /\ range_arg = <<>>
    /\ resolved = <<>>
    /\ rangeResult = NoResult

RangeNext == get_commits_in_range

RangeSpec == RangeInit /\ [][RangeNext]_vars

\* C14: get_commits_in_range fails with the invalid-range error on every
\* range that does not split on ".." into exactly two non-empty pieces (no
\* "..", more than one "..", an empty side as in "..b" or "a.."), before any
\* reference is resolved and with the repository as it was.
C14_MalformedRangeRejectedFirst ==
    LET pieces == Split(range_arg)
    IN  (rangeResult # NoResult
            /\ ~(Len(pieces) = 2 /\ pieces[1] # <<>> /\ pieces[2] # <<>>))
        => /\ rangeResult = RangeErr(ErrInvalidRange)
           /\ resolved = <<>>

\* The commits reachable from c along parent links, c included.
ReachableFrom(c) ==
    LET step[k \in 0..MaxNodes] ==
            IF k = 0 THEN {c}
            ELSE step[k - 1] \cup UNION {parents[x] : x \in step[k - 1]}
    IN  step[MaxNodes]

\* C15: for "A..B" with both names resolvable the result holds exactly the
\* commits reachable from B and not from A, each once; the commit of A is
\* not in it, and it is empty when A and B name the same commit.
C15_RangeIsReachableDifference ==
    LET pieces == Split(range_arg)
        list == rangeResult.commits
    IN  (rangeResult # NoResult /\ Len(pieces) = 2
            /\ pieces[1] \in DOMAIN refs /\ pieces[2] \in DOMAIN refs)
        => LET A == refs[pieces[1]]
               B == refs[pieces[2]]
           IN  /\ rangeResult.kind = "ok"
               /\ {list[i] : i \in 1..Len(list)} = ReachableFrom(B) \ ReachableFrom(A)
               /\ \A i, j \in 1..Len(list) : list[i] = list[j] => i = j
               /\ \A i \in 1..Len(list) : list[i] # A
               /\ A = B => list = <<>>

\* "a..b" on a graph where "b" is a merge of "a" and another commit.
C15_Witness ==
    /\ range_arg = <<"a", ".", ".", "b">>
    /\ rangeResult.kind = "ok"
    /\ Len(rangeResult.commits) = 2
    /\ Cardinality(parents[refs[RefB]]) = 2
    /\ refs[RefA] \in parents[refs[RefB]]

\* C17: with one new untracked file and one modified tracked file,
\* get_staged_files returns exactly two entries, the untracked path with
\* status "added" and the tracked path with status "modified"; no entry has
\* the status "unknown".
C17_UntrackedIsAdded ==
    \A u, t \in Paths :
        (/\ staged_files # None
         /\ u # t
         /\ \A p \in Paths \ {u, t} : index[p] = workdir[p]
         /\ index[u] = 0 /\ workdir[u] # 0
         /\ index[t] # 0 /\ workdir[t] # 0 /\ index[t] # workdir[t])
        => LET files == staged_files[1]
           IN  /\ Len(files) = 2
               /\ {files[i] : i \in 1..Len(files)} =
                    {[path |-> u, status |-> "added"], [path |-> t, status |-> "modified"]}

(***************************************************************************)
(* Constructing the generation client: MessageGenerator::new (llm.rs),    *)
(* Config::validate (config.rs)                                            *)
(***************************************************************************)

\* MessageGenerator::new() (llm.rs:26-37): Config::load()?, validate()?,
\* then the client and the generator.
MessageGenerator_new ==
    /\ newResult = NoResult
    /\ \E loads \in BOOLEAN, cfg \in Configs :
        IF ~loads
        THEN /\ newResult' = Err("configuration")
             /\ UNCHANGED <<loaded_config, generator>>
        ELSE /\ loaded_config' = Some(cfg)
             /\ IF Validate(cfg, env_api_key)
                THEN /\ generator' = Some(MakeGenerator(cfg))
                     /\ newResult' = Ok(<<>>)
                ELSE /\ generator' = None
                     /\ newResult' = Err("configuration")
    /\ UNCHANGED <<cpc, args_commit, repoVars, staged_files, request, cmdResult, printed>>
    /\ UNCHANGED <<env_api_key, genVars, clVars, vsVars, rgVars, tgVars>>

\* A generate_* method is called on the generator that new() returned: the
\* methods take &self, so a call needs a generator (llm.rs:39, 86, 132).
generator_generate ==
    /\ generator # None
    /\ \E c \in Calls : SendChat(c)
    /\ UNCHANGED <<cmVars, clVars, toolVars>>

\* The provider answers the request of that call.
generator_answer ==
    /\ gpc = "awaiting"
    /\ \E r \in CommitAnswers : ChatReturns(r)
    /\ UNCHANGED <<cmVars, clVars, toolVars>>

ConfigInit ==
    /\ GenIdle
    /\ CmIdle
    /\ ClIdle
    /\ VsIdle
    /\ RgIdle
    /\ TgIdle
    /\ loaded_config = None
    /\ env_api_key \in BOOLEAN
    /\ newResult = NoResult

ConfigNext ==
    \/ MessageGenerator_new
    \/ generator_generate
    \/ generator_answer
    \/ BudgetElapses

ConfigSpec == ConfigInit /\ [][ConfigNext]_vars

\* C19: MessageGenerator::new fails with a configuration error and returns
\* no generator whenever the loaded configuration has an empty API key, an
\* empty base URL or an empty model; no generation request is issued from
\* such a configuration.
C19_EmptySettingsRejected ==
    (loaded_config # None
        /\ (\/ loaded_config[1].api_key = ""
            \/ loaded_config[1].base_url = ""
            \/ loaded_config[1].model = ""))
    => /\ newResult = Err("configuration")
       /\ generator = None
       /\ attempts = 0
       /\ gpc = "idle"

\* new() has returned for a configuration whose only empty setting is the
\* model.
C19_Witness ==
    /\ loaded_config # None
    /\ loaded_config[1].api_key = "sk"
    /\ loaded_config[1].base_url = "url"
    /\ loaded_config[1].model = ""
    /\ newResult = Err("configuration")

\* C20: a MessageGenerator made from a valid configuration uses exactly the
\* configured API key, base URL and model: the credential and the endpoint
\* of its client and its model equal the configured values.
C20_GeneratorUsesConfiguredValues ==
    (loaded_config # None /\ generator # None)
    => /\ generator[1].client.api_key = loaded_config[1].api_key
       /\ generator[1].client.base_url = loaded_config[1].base_url
       /\ generator[1].model = loaded_config[1].model

(***************************************************************************)
(* Annotated tags: handle_tag (cli.rs), GitRepo::create_annotated_tag      *)
(* (git.rs)                                                                *)
(***************************************************************************)

TagNames == {"v1", "v2"}

\* --reference: HEAD (the default) or a name the repository does not have.
References == {"HEAD", "missing"}

ErrTagExists == "tag already exists"

TagCreatedMsg == "Annotated tag created successfully!"

GeneratedTagMsg == "Generated tag message:"

UseAnnotatedFlagMsg == "Use --annotated flag to create the tag automatically."

\* repo.revparse_single(reference)?.peel_to_commit()? (git.rs:98-99, 196-197)
ReferenceResolves(reference) == reference = "HEAD" /\ head # 0

\* handle_tag returns at once with error e.
TagFails(e) ==
    /\ tpc' = "done"
    /\ tagResult' = Err(e)
    /\ UNCHANGED <<genVars, tags, printed>>

\* handle_tag up to the request for the tag message (cli.rs:113-120).
handle_tag ==
    /\ tpc = "start"
    /\ \E name \in TagNames, annotated \in BOOLEAN, reference \in References,
          isRepo \in BOOLEAN, loads \in BOOLEAN, cfg \in Configs, envKey \in BOOLEAN :
        /\ args_tag' = Some([name |-> name, annotated |-> annotated,
                             reference |-> reference])
        /\ IF ~isRepo
           THEN TagFails("repository") /\ generator' = None
           ELSE IF ~loads \/ ~Validate(cfg, envKey)
           THEN TagFails("configuration") /\ generator' = None
           ELSE IF ~ReferenceResolves(reference)
           THEN TagFails("repository") /\ generator' = Some(MakeGenerator(cfg))
           ELSE /\ generator' = Some(MakeGenerator(cfg))
                /\ SendChat("generate_tag_message")
                /\ tpc' = "awaiting"
                /\ UNCHANGED <<tags, tagResult, printed>>
    /\ UNCHANGED <<cpc, args_commit, repoVars, staged_files, request, cmdResult>>
    /\ UNCHANGED <<clVars, vsVars, rgVars, cfVars>>

\* A tag call made with force = true: a tag of that name is replaced.
create_annotated_tag_forced(name, message, reference) ==
    /\ tags' = [n \in DOMAIN tags \cup {name} |->
                    IF n = name THEN [target |-> head, message |-> message] ELSE tags[n]]
    /\ tagResult' = Ok(<<>>)
    /\ printed' = <<TagCreatedMsg>>

\* create_annotated_tag(name, message, reference) (git.rs:195-211) and the
\* line handle_tag prints after it: repo.tag is called with force = false,
\* so it fails when a tag of that name exists and creates the tag otherwise.
create_annotated_tag(name, message, reference) ==
    IF ~ReferenceResolves(reference)
    THEN /\ tagResult' = Err("repository")
         /\ UNCHANGED <<tags, printed>>
    ELSE IF name \in DOMAIN tags
    THEN /\ tagResult' = Err(ErrTagExists)
         /\ UNCHANGED <<tags, printed>>
    ELSE /\ tags' = [n \in DOMAIN tags \cup {name} |->
                        IF n = name THEN [target |-> head, message |-> message]
                        ELSE tags[n]]
         /\ tagResult' = Ok(<<>>)
         /\ printed' = <<TagCreatedMsg>>

\* handle_tag from the answer of the provider to its return
\* (cli.rs:120-130).
handle_tag_resume ==
    /\ tpc = "awaiting"
    /\ \E r \in CommitAnswers :
        /\ ChatReturns(r)
        /\ tpc' = "done"
        /\ LET message == GenerateReturn(r)
           IN  IF message.kind = "err"
               THEN /\ tagResult' = message
                    /\ UNCHANGED <<tags, printed>>
               ELSE IF args_tag[1].annotated
               THEN create_annotated_tag(args_tag[1].name, message.text,
                                         args_tag[1].reference)
               ELSE /\ printed' = <<GeneratedTagMsg, message.text, UseAnnotatedFlagMsg>>
                    /\ tagResult' = Ok(<<>>)
                    /\ UNCHANGED tags
    /\ UNCHANGED <<cpc, args_commit, repoVars, generator, staged_files, request, cmdResult>>
    /\ UNCHANGED <<args_tag, clVars, vsVars, rgVars, cfVars>>

\* The budget of the pending request elapses during the tag flow.
TagBudgetElapses ==
    /\ tpc = "awaiting"
    /\ BudgetElapses

\* The tags a repository may hold: any of the names, on any commit, with any
\* message.
TagMaps ==
    UNION {[names -> [target : 1..Len(commits), message : Texts(MaxMessageLen)]] :
                names \in SUBSET TagNames}

\* The repository the command runs in: HEAD unborn or at the last of one or
\* two commits, with any tags on them.
TagInit ==
    /\ GenIdle
    /\ ClIdle
    /\ VsIdle
    /\ RgIdle
    /\ CfIdle
    /\ cpc = "start"
    /\ args_commit = FALSE
    /\ index = [p \in Paths |-> 1]
    /\ workdir = [p \in Paths |-> 1]
    /\ commits \in {<<>>,
                    <<[tree |-> index, message |-> <<>>, parent |-> 0]>>,
                    <<[tree |-> index, message |-> <<>>, parent |-> 0],
                      [tree |-> index, message |-> <<"a">>, parent |-> 1]>>}
    /\ head = Len(commits)
    /\ generator = None
    /\ staged_files = None
    /\ request = None
    /\ cmdResult = NoResult
    /\ printed = <<>>
    /\ tpc = "start"
    /\ args_tag = None
    /\ tags \in TagMaps
    /\ tagResult = NoResult

TagNext ==
    \/ handle_tag
    \/ handle_tag_resume
    \/ TagBudgetElapses

TagSpec == TagInit /\ [][TagNext]_vars

\* C18: create_annotated_tag with the name of an existing tag fails with the
\* already-exists error: every tag keeps its target and message, and no tag
\* of another name is created.
C18_ExistingTagIsKept ==
    [][(/\ tpc = "awaiting" /\ tpc' = "done"
        /\ response'.kind = "ok"
        /\ args_tag[1].annotated
        /\ args_tag[1].name \in DOMAIN tags)
       => (tagResult' = Err(ErrTagExists) /\ tags' = tags)]_vars

\* handle_tag --annotated has returned for a name that was a tag already.
C18_Witness ==
    /\ tpc = "done"
    /\ response.kind = "ok"
    /\ args_tag[1].annotated
    /\ args_tag[1].name \in DOMAIN tags
    /\ tagResult = Err(ErrTagExists)
    /\ Cardinality(DOMAIN tags) = 1

(***************************************************************************)
(* Claims about the order of effects in the commit flow                    *)
(***************************************************************************)

\* C21: with --commit, at most one commit is created per invocation and only
\* in the step where the generation call returns successfully: its message
\* is the generated text, its only parent is the previous HEAD commit and
\* its tree is the index tree; when generation fails or HEAD is unborn no
\* commit is created and HEAD stays where it was.
C21_OneCommitAfterGeneration ==
    /\ [][(commits' # commits \/ head' # head)
            => /\ cpc = "awaiting" /\ cpc' = "done"
               /\ args_commit
               /\ response'.kind = "ok" /\ genResult'.kind = "ok"
               /\ head # 0
               /\ Len(commits') = Len(commits) + 1
               /\ SubSeq(commits', 1, Len(commits)) = commits
               /\ commits'[Len(commits')].message = genResult'.text
               /\ commits'[Len(commits')].parent = head
               /\ commits'[Len(commits')].tree = index
               /\ head' = Len(commits')]_vars
    /\ [][(cpc' = "done" /\ (response'.kind = "err" \/ head = 0))
            => (commits' = commits /\ head' = head)]_vars
    /\ [][cpc = "done" => cpc' = "done"]_vars

\* The flow ran with --commit on a HEAD commit and created the commit.
C21_Witness ==
    /\ cpc = "done"
    /\ args_commit
    /\ Len(commits) = 2
    /\ head = 2
    /\ commits[2].parent = 1
    /\ commits[2].message = genResult.text
    /\ cmdResult.kind = "ok"

\* C23: whenever the commit flow creates a commit, the paths of the file
\* list and of the diff sent in the commit-message request are the paths
\* whose content differs between the new commit's tree and its parent's
\* tree.
C23_RequestDescribesTheCommit ==
    (cpc = "done" /\ args_commit /\ printed = <<CommitCreatedMsg>>)
    => LET new == commits[head]
           recorded == {p \in Paths : new.tree[p] # commits[new.parent].tree[p]}
           files == request[1].files
       IN  /\ {files[i].path : i \in 1..Len(files)} = recorded
           /\ request[1].diff = recorded

(***************************************************************************)
(* The changelog flow: handle_changelog (cli.rs), generate_changelog       *)
(* (changelog.rs)                                                          *)
(***************************************************************************)

\* What get_commits_in_range or get_recent_commits may return (cli.rs:139-
\* 143): commits of the repository, with the 40-character SHAs of
\* get_commit_info.
ExtractedLists ==
    LET info(msg) == [sha |-> FullSha, message |-> msg, author |-> AuthorAnn,
                      date |-> Date20250101]
    IN  {<<>>, <<info(MsgFeat)>>, <<info(MsgReleaseDot), info(MsgFix)>>}

\* A generate_changelog that goes on with an empty summary when the request
\* failed.
generate_changelog_unchecked(r, infos) ==
    Ok(RenderSection(DetectVersion(MessagesOf(infos)), Date20250101, Trim(r.text)))

\* ChangelogGenerator::generate_changelog (changelog.rs:33-42), from the
\* value r of the awaited request: the `?` returns its error, otherwise the
\* section is rendered from the version, the date and the trimmed summary.
generate_changelog(r, infos) ==
    IF r.kind = "ok"
    THEN Ok(RenderSection(DetectVersion(MessagesOf(infos)), Date20250101, Trim(r.text)))
    ELSE Err(r.error)

\* handle_changelog returns at once with error e.
ChangelogFails(e) ==
    /\ lpc' = "done"
    /\ changelogResult' = Err(e)
    /\ UNCHANGED <<genVars, commit_infos>>

\* handle_changelog up to the request for the summary (cli.rs:133-145).
handle_changelog ==
    /\ lpc = "start"
    /\ \E range \in BOOLEAN, output \in BOOLEAN, append \in BOOLEAN,
          isRepo \in BOOLEAN, loads \in BOOLEAN, cfg \in Configs, envKey \in BOOLEAN,
          extracts \in BOOLEAN, infos \in ExtractedLists :
        /\ args_changelog' = Some([range |-> range, output |-> output, append |-> append])
        /\ IF ~isRepo
           THEN ChangelogFails("repository") /\ generator' = None
           ELSE IF ~loads \/ ~Validate(cfg, envKey)
           THEN ChangelogFails("configuration") /\ generator' = None
           ELSE IF ~extracts
           THEN ChangelogFails("repository") /\ generator' = Some(MakeGenerator(cfg))
           ELSE /\ generator' = Some(MakeGenerator(cfg))
                /\ commit_infos' = infos
                /\ SendChat("generate_changelog_summary")
                /\ lpc' = "awaiting"
                /\ UNCHANGED changelogResult
    /\ UNCHANGED <<changelog_file, prev_file, last_content, last_append, fresh, merged, nWrites>>
    /\ UNCHANGED <<cpc, args_commit, repoVars, staged_files, request, cmdResult, printed>>
    /\ UNCHANGED <<detected_version, rendered, rgVars, tgVars, cfVars>>

\* handle_changelog from the answer of the provider to its return
\* (cli.rs:145-154).
handle_changelog_resume ==
    /\ lpc = "awaiting"
    /\ \E r \in CommitAnswers :
        /\ ChatReturns(r)
        /\ lpc' = "done"
        /\ LET changelog == generate_changelog(r, commit_infos)
           IN  IF changelog.kind = "err"
               THEN /\ changelogResult' = changelog
                    /\ UNCHANGED <<changelog_file, prev_file, last_content, last_append,
                                   fresh, merged, nWrites, printed>>
               ELSE IF args_changelog[1].output
               THEN /\ IF args_changelog[1].append
                       THEN append_to_changelog(changelog.text)
                       ELSE create_new_changelog(changelog.text)
                    /\ Recorded(changelog.text, args_changelog[1].append)
                    /\ printed' = <<"Changelog written to output_path">>
                    /\ changelogResult' = Ok(<<>>)
               ELSE /\ printed' = <<"Generated changelog:", changelog.text>>
                    /\ changelogResult' = Ok(<<>>)
                    /\ UNCHANGED <<changelog_file, prev_file, last_content, last_append,
                                   fresh, merged, nWrites>>
    /\ UNCHANGED <<cpc, args_commit, repoVars, generator, staged_files, request, cmdResult>>
    /\ UNCHANGED <<args_changelog, toolVars>>

\* The budget of the pending request elapses during the changelog flow.
ChangelogBudgetElapses ==
    /\ lpc = "awaiting"
    /\ BudgetElapses

ChangelogFlowNext ==
    \/ handle_changelog
    \/ handle_changelog_resume
    \/ ChangelogBudgetElapses

\* The command starts with any of the documents at the output path.
ChangelogFlowSpec == ChangelogInit /\ [][ChangelogFlowNext]_vars

\* C22: in the changelog flow the output file is overwritten only in the
\* step where the generation call returns successfully, with contents that
\* hold the whole generated section: when commit extraction or generation
\* fails, nothing is written and the file is what it was before.
C22_WriteOnlyAfterGeneration ==
    /\ [][(changelog_file' # changelog_file \/ nWrites' # nWrites)
            => /\ lpc = "awaiting" /\ lpc' = "done"
               /\ response'.kind = "ok"
               /\ changelogResult'.kind = "ok"
               /\ args_changelog[1].output
               /\ Contains(changelog_file',
                           <<"]", " ", "-", " ">> \o Date20250101 \o <<"\n", "\n">>
                               \o genResult'.text)]_vars
    /\ [][(lpc' = "done" /\ changelogResult'.kind = "err")
            => (changelog_file' = changelog_file /\ nWrites' = nWrites)]_vars
    /\ [][lpc = "done" => (lpc' = "done" /\ changelog_file' = changelog_file)]_vars

\* The flow wrote the file with --append after a successful generation.
C22_Witness ==
    /\ lpc = "done"
    /\ args_changelog[1].output
    /\ args_changelog[1].append
    /\ changelogResult.kind = "ok"
    /\ nWrites = 1
    /\ changelog_file # prev_file
    /\ prev_file = DocExample

====
